---- MODULE Spec2Model ----
(***************************************************************************)
(* State-machine model of tv2018                                           *)
(* (src/mosqito/sq_metrics/loudness/loudness_mgs/tv2018_scratch.py).       *)
(* One action per statement group of the function; the local variables of *)
(* the function are the variables of the model.  The stages imported from *)
(* mgsutils are modelled from their description in the specification, on  *)
(* small integers.                                                        *)
(*                                                                         *)
(* A second state machine, RefSpec, models the roughness reference        *)
(* functions of                                                            *)
(* src/validations/sq_metrics/roughness_ecma/input/references.py.          *)
(***************************************************************************)
EXTENDS Integers, Sequences, FiniteSets, TLC

VARIABLES
    s_arg,        \* the caller's argument s (None or the caller's array)
    fs_arg,       \* the caller's argument fs (None or a rate)
    field_type,   \* the caller's argument field_type
    file,         \* content of the sound file named by filename_sound
    file_reads,   \* number of times load(filename_sound) was called
    s,            \* local s (None or a signal: sequence of <<left, right>>)
    fs,           \* local fs (None or a rate)
    resampled,    \* the "[Warning] Signal resampled" branch was taken
    fb_left,      \* array returned by the filterbank stage, left channel
    fb_right,     \* array returned by the filterbank stage, right channel
    isl_left,     \* instantaneous_specific_loudness_left
    isl_right,    \* instantaneous_specific_loudness_right
    stsl_left,    \* short_term_specific_loudness_left
    stsl_right,   \* short_term_specific_loudness_right
    stl_left,     \* short_term_loudness_left
    stl_right,    \* short_term_loudness_right
    agg_left,     \* the aggregate the short-term stage returned, left
    agg_right,    \* the aggregate the short-term stage returned, right
    i,            \* loop variable of the binaural loop
    ltl_left,     \* long_term_loudness_left
    ltl_right,    \* long_term_loudness_right
    long_term_loudness,
    loudness,
    short_term_loudness,
    il_left,      \* instantaneous_loudness_left
    il_right,     \* instantaneous_loudness_right
    summary,      \* the phon values printed in the summary
    calls,        \* the stage invocations made so far, in order
    pc,           \* position in tv2018
    error,        \* None or <<exception, statement>> that ended the call
    result,       \* None or the returned 5-tuple
    reinvoked,    \* the caller has called tv2018 a second time
    ref_fn,       \* the reference function called
    fc,           \* its argument fc
    fmod,         \* its argument fmod
    xp,           \* None or the array bound to fm / x / fmod_vector
    fp,           \* None or the array bound to R / y
    taken,        \* the carriers whose branch was entered, in order
    branch,       \* the if statement control is at (counted from 1)
    ref_pc,       \* position in the reference function
    ref_value,    \* None or the returned interpolation
    ref_error     \* None or the exception that ended the call

vars == <<s_arg, fs_arg, field_type, file, file_reads, s, fs, resampled,
          fb_left, fb_right, isl_left, isl_right, stsl_left, stsl_right,
          stl_left, stl_right, agg_left, agg_right, i, ltl_left, ltl_right, long_term_loudness,
          loudness, short_term_loudness, il_left, il_right, summary, calls,
          pc, error, result, reinvoked, ref_fn, fc, fmod, xp, fp, taken,
          branch, ref_pc, ref_value, ref_error>>

-----------------------------------------------------------------------------
(* Bounds of the model *)

MaxLen == 1         \* longest input signal, in samples
NBands == 2         \* auditory bands of a frame
MaxRetained == 3    \* most frames the filterbank yields beyond the two trims

(* Python's None and optional values *)
None == <<>>
Some(x) == <<x>>
Val(o) == o[1]

-----------------------------------------------------------------------------
(* Program constants *)

OperatingRate == 32000
PadLength == 2048
TrimStart == 32
TrimEnd == 32
BandDivisor == 4

-----------------------------------------------------------------------------
(* Helpers on sequences *)

Zeros(n) == [k \in 1..n |-> 0]

ZeroSamples(n) == [k \in 1..n |-> <<0, 0>>]

ZeroMatrix(n) == [k \in 1..n |-> Zeros(NBands)]

IsZeroSignal(sig) == \A k \in 1..Len(sig) : sig[k] = <<0, 0>>

SumSeq(xs) ==
    LET f[k \in 0..Len(xs)] == IF k = 0 THEN 0 ELSE f[k - 1] + xs[k]
    IN  f[Len(xs)]

MaxSeq(xs) ==
    LET f[k \in 1..Len(xs)] ==
            IF k = 1 THEN xs[1]
            ELSE IF xs[k] > f[k - 1] THEN xs[k] ELSE f[k - 1]
    IN  f[Len(xs)]

AddSeq(xs, ys) == [k \in 1..Len(xs) |-> xs[k] + ys[k]]

-----------------------------------------------------------------------------
(* Inputs the model draws from *)

NScenes == 2        \* distinct non-silent filterbank outputs per frame count

FieldTypes == {"free", "diffuse"}

FieldTypeArgs == FieldTypes \cup {"headphone"}

Rates == {16000, OperatingRate, 64000}

SampleValues == {<<0, 0>>, <<4, 8>>}

Signals == UNION {[1..n -> SampleValues] : n \in 0..MaxLen}

Files == {[s |-> <<<<8, 4>>>>, fs |-> 16000]}

\* Frame counts the filterbank may yield: around the two trims, and two
\* short ones below a single trim.
FrameCounts ==
    {0, TrimStart + 1}
        \cup ((TrimStart + TrimEnd - 1)..(TrimStart + TrimEnd + MaxRetained))

-----------------------------------------------------------------------------
(* load and scipy.signal.resample *)

\* int(32000 * len(s) / fs)
ResampledLength(sig, rate) == (OperatingRate * Len(sig)) \div rate

\* resample(s, num): num samples along the time axis; a sample-and-hold of
\* the input stands for the Fourier interpolation.
Resample(sig, num) ==
    [k \in 1..num |-> sig[((k - 1) * Len(sig)) \div num + 1]]

\* resample raises on an empty input or an empty output (FFT of 0 points)
ResampleRaises(sig, num) == Len(sig) = 0 \/ num = 0

\* np.pad(s, ((2048, 0), (0, 0)), mode="constant")
PadFrontOnly(sig) == ZeroSamples(PadLength) \o sig

\* np.pad(s, ((2048, 2048), (0, 0)), mode="constant")
Pad(sig) == ZeroSamples(PadLength) \o sig \o ZeroSamples(PadLength)

-----------------------------------------------------------------------------
(* Stages of mgsutils, modelled from the specification *)

\* Stage A: field-dependent correction, per channel, same length and rate.
CochleaGain(ft) == IF ft = "free" THEN 1 ELSE 2

CochleaAccepts(ft) == ft \in FieldTypes

SoundFieldToCochlea(sig, ft) ==
    [k \in 1..Len(sig) |->
        <<CochleaGain(ft) * sig[k][1], CochleaGain(ft) * sig[k][2]>>]

\* Stage B: frame x band matrices, one per channel, values >= 0; silence
\* gives zero everywhere.  The frame count and the content of a non-silent
\* signal's frames are the stage's business: they are drawn from FrameCounts
\* and from NScenes contents.
SceneRow(side, sc, k) ==
    [b \in 1..NBands |->
        IF side = "left" THEN 4 * ((k * sc + b) % 3)
        ELSE 4 * ((k + sc * b) % 3)]

SceneMatrix(side, sc, n) == [k \in 1..n |-> SceneRow(side, sc, k)]

FilterbankOutputs(sig) ==
    IF IsZeroSignal(sig)
    THEN {<<ZeroMatrix(n), ZeroMatrix(n)>> : n \in FrameCounts}
    ELSE {<<SceneMatrix("left", sc, n), SceneMatrix("right", sc, n)>> :
            sc \in 1..NScenes, n \in FrameCounts}

\* Stages C and E: first-order recursion over time, one coefficient for
\* rising and one for falling values, started from 0.
SmoothStep(prev, x, attack, release) ==
    IF x > prev THEN prev + (x - prev) \div attack
    ELSE prev - (prev - x) \div release

SmoothSeq(xs, attack, release) ==
    LET f[k \in 0..Len(xs)] ==
            IF k = 0 THEN 0 ELSE SmoothStep(f[k - 1], xs[k], attack, release)
    IN  [k \in 1..Len(xs) |-> f[k]]

Column(m, b) == [k \in 1..Len(m) |-> m[k][b]]

\* Stage C: per band, attack 1/2, release 1/4
ShortTermSpecific(m) ==
    LET col(b) == SmoothSeq(Column(m, b), 2, 4)
    IN  [k \in 1..Len(m) |-> [b \in 1..NBands |-> col(b)[k]]]

\* the per-channel aggregate stage C also returns
ShortTermAggregates == {0, 5}

\* Stage D: band by band the ear with the lower value is partly suppressed;
\* returns (binaural total, left total, right total).
Inhibited(a, b) == IF a < b THEN a \div 2 ELSE a

BinauralLoudness(l, r) ==
    LET left == SumSeq([b \in 1..NBands |-> Inhibited(l[b], r[b])])
        right == SumSeq([b \in 1..NBands |-> Inhibited(r[b], l[b])])
    IN  <<left + right, left, right>>

\* Stage E: slower than C: attack 1/4, release 1/8
LongTerm(xs) == SmoothSeq(xs, 4, 8)

\* Stage F: monotonic, 0 sone -> 0 phon, anchored at 40
SoneToPhon(xs) == [k \in 1..Len(xs) |-> IF xs[k] = 0 THEN 0 ELSE 40 + xs[k]]

-----------------------------------------------------------------------------
(* Pieces of tv2018 *)

\* "s is None and fs is None"
NeedsLoadBoth(sv, fv) == sv = None /\ fv = None

\* "s is None or fs is None"
NeedsLoad(sv, fv) == sv = None \/ fv = None

\* the rate is never looked at
NeverResample(rate) == FALSE

\* "fs != 32000"
NeedsResample(rate) == rate # OperatingRate

\* the default of the parameter is handed on, not the argument
FieldArgDefault == "free"

\* the field type handed to sound_field_to_cochlea
FieldArg == field_type

\* the rate handed to the filterbank stage
RateArg == Val(fs)

\* Python's normalisation of a slice bound k for a sequence of n items
PyIndex(k, n) ==
    IF k < 0 THEN (IF n + k < 0 THEN 0 ELSE n + k)
    ELSE (IF k > n THEN n ELSE k)

\* m[start:stop, :]
PySlice(m, start, stop) ==
    LET a == PyIndex(start, Len(m))
        b == PyIndex(stop, Len(m))
    IN  IF a < b THEN SubSeq(m, a + 1, b) ELSE <<>>

\* m[33:-32, :]
ShortenOffByOne(m) == PySlice(m, TrimStart + 1, 0 - TrimEnd)

\* m[32:-32, :]
Shorten(m) == PySlice(m, TrimStart, 0 - TrimEnd)

\* the row of the filterbank's array that row 0 of the shortened view is
ViewBase(m) == PyIndex(TrimStart, Len(m)) + 1

\* m[0, :] = 0
ZeroFirstRow(m) == [m EXCEPT ![1] = Zeros(NBands)]

\* np.zeros(m.shape[0] + 1)
InitTotalsLonger(m) == Zeros(Len(m) + 1)

\* np.zeros(m.shape[0])
InitTotals(m) == Zeros(Len(m))

\* range(short_term_specific_loudness_left.shape[0] - 1)
LoopFramesShort == Len(stsl_left) - 1

\* range(short_term_specific_loudness_left.shape[0])
LoopFrames == Len(stsl_left)

\* totals[idx] = v (idx counts from 0)
StoreTotal(totals, idx, v) == [totals EXCEPT ![idx + 1] = v]

\* the left row is always that of the first frame
FrameRowsStale(idx) == <<stsl_left[1], stsl_right[idx + 1]>>

\* the binaural total is stored as the left total
LeftTotalBinaural(t) == t[1]

\* "_, short_term_loudness_left[i], short_term_loudness_right[i] = ...":
\* the second component of the triple
LeftTotal(t) == t[2]

\* the third component of the triple
RightTotal(t) == t[3]

\* the rows handed to the binaural stage at loop index idx
FrameRows(idx) == <<stsl_left[idx + 1], stsl_right[idx + 1]>>

\* long_term_loudness_left - long_term_loudness_right
DiffChannels(l, r) == [k \in 1..Len(l) |-> l[k] - r[k]]

\* long_term_loudness_left + long_term_loudness_right
SumChannels(l, r) == AddSeq(l, r)

\* long_term_loudness[0]
OverallLoudnessFirst(lt) == lt[1]

\* np.max(long_term_loudness)
OverallLoudness(lt) == MaxSeq(lt)

\* np.sum(m, axis=1) / 4
InstantaneousLoudness(m) ==
    [k \in 1..Len(m) |-> SumSeq(m[k]) \div BandDivisor]

\* the short-term sequence is built from the short-term stage's aggregates
ReturnValueFromAggregate ==
    [loudness |-> loudness,
     short_term_loudness |->
         [k \in 1..Len(short_term_loudness) |-> Val(agg_left) + Val(agg_right)],
     long_term_loudness |-> long_term_loudness,
     instantaneous_loudness_left |-> il_left,
     instantaneous_loudness_right |-> il_right]

\* the long-term sequence returned is the converted one
ReturnValuePhon ==
    [loudness |-> loudness,
     short_term_loudness |-> short_term_loudness,
     long_term_loudness |-> SoneToPhon(long_term_loudness),
     instantaneous_loudness_left |-> il_left,
     instantaneous_loudness_right |-> il_right]

\* the 5-tuple of the return statement
ReturnValue ==
    [loudness |-> loudness,
     short_term_loudness |-> short_term_loudness,
     long_term_loudness |-> long_term_loudness,
     instantaneous_loudness_left |-> il_left,
     instantaneous_loudness_right |-> il_right]

\* control: go on to the next statement
Goto(nxt) == pc' = nxt /\ UNCHANGED <<error, result>>

\* the exception is swallowed and control goes on
RaiseSwallowed(e, nxt) == pc' = nxt /\ error' = <<e, pc>> /\ UNCHANGED result

\* control: an exception leaves tv2018 (there is no try/except in it)
Raise(e, nxt) == pc' = "raised" /\ error' = <<e, pc>> /\ UNCHANGED result

\* a stage is entered: it is appended to the record of invocations
Invoke(stage, arg) == calls' = Append(calls, <<stage, arg>>)

\* "s = resample(s, ...)", "s = np.pad(s, ...)" written as "s[:] = ...": the
\* new content lands in the caller's array
CallerArrayWritten(caller, new) == IF caller = None THEN caller ELSE Some(new)

\* "s = resample(s, ...)", "s = np.pad(s, ...)": the local name is rebound to
\* the new array, the array the caller handed in is left as it is
CallerArray(caller, new) == caller

refv == <<ref_fn, fc, fmod, xp, fp, taken, branch, ref_pc, ref_value, ref_error>>
outside == <<reinvoked, refv>>
args == <<s_arg, fs_arg, field_type, file>>
sigv == <<s, fs, resampled, file_reads>>
instv == <<fb_left, fb_right, isl_left, isl_right>>
shortv == <<stsl_left, stsl_right, stl_left, stl_right, agg_left, agg_right, i>>
longv == <<ltl_left, ltl_right>>
outv == <<long_term_loudness, loudness, short_term_loudness, il_left, il_right>>

-----------------------------------------------------------------------------
(* The state machine *)

\* no reference function is being called
RefIdle ==
    /\ ref_fn = "none"
    /\ fc = 0
    /\ fmod = 0
    /\ xp = None
    /\ fp = None
    /\ taken = <<>>
    /\ branch = 0
    /\ ref_pc = "idle"
    /\ ref_value = None
    /\ ref_error = None

Init ==
    /\ s_arg \in {None} \cup {Some(x) : x \in Signals}
    /\ fs_arg \in {None} \cup {Some(r) : r \in Rates}
    /\ field_type \in FieldTypeArgs
    /\ file \in Files
    /\ file_reads = 0
    /\ s = s_arg
    /\ fs = fs_arg
    /\ resampled = FALSE
    /\ fb_left = None /\ fb_right = None
    /\ isl_left = None /\ isl_right = None
    /\ stsl_left = None /\ stsl_right = None
    /\ stl_left = None /\ stl_right = None
    /\ agg_left = None /\ agg_right = None
    /\ i = 0
    /\ ltl_left = None /\ ltl_right = None
    /\ long_term_loudness = None
    /\ loudness = None
    /\ short_term_loudness = None
    /\ il_left = None /\ il_right = None
    /\ summary = <<>>
    /\ calls = <<>>
    /\ pc = "load"
    /\ error = None
    /\ result = None
    /\ reinvoked = FALSE
    /\ RefIdle

\* lines 54-56
Load ==
    /\ pc = "load"
    /\ IF NeedsLoad(s, fs)
       THEN /\ file_reads' = file_reads + 1
            /\ \/ /\ s' = Some(file.s)
                  /\ fs' = Some(file.fs)
                  /\ Goto("resample")
               \/ /\ UNCHANGED <<s, fs>>
                  /\ Raise("IOError", "resample")
       ELSE /\ UNCHANGED <<s, fs, file_reads>>
            /\ Goto("resample")
    /\ UNCHANGED <<outside, args, resampled, instv, shortv, longv, outv, summary, calls>>

\* lines 58-63
ResampleStep ==
    /\ pc = "resample"
    /\ IF NeedsResample(Val(fs))
       THEN /\ resampled' = TRUE
            /\ LET num == ResampledLength(Val(s), Val(fs))
               IN  IF ResampleRaises(Val(s), num)
                   THEN /\ UNCHANGED <<s, s_arg, fs>>
                        /\ Raise("ValueError", "pad")
                   ELSE /\ s' = Some(Resample(Val(s), num))
                        /\ s_arg' = CallerArray(s_arg, Resample(Val(s), num))
                        /\ fs' = Some(OperatingRate)
                        /\ Goto("pad")
       ELSE /\ UNCHANGED <<s, s_arg, fs, resampled>>
            /\ Goto("pad")
    /\ UNCHANGED <<outside, fs_arg, field_type, file, file_reads, instv, shortv, longv, outv, summary, calls>>

\* line 68
PadStep ==
    /\ pc = "pad"
    /\ s' = Some(Pad(Val(s)))
    /\ s_arg' = CallerArray(s_arg, Pad(Val(s)))
    /\ Goto("cochlea")
    /\ UNCHANGED <<outside, fs_arg, field_type, file, fs, resampled, file_reads, instv, shortv, longv, outv,
                   summary, calls>>

\* lines 70-71
Cochlea ==
    /\ pc = "cochlea"
    /\ Invoke("sound_field_to_cochlea", 0)
    /\ IF CochleaAccepts(FieldArg)
       THEN \/ /\ s' = Some(SoundFieldToCochlea(Val(s), FieldArg))
               /\ Goto("filterbank")
            \/ /\ UNCHANGED s
               /\ Raise("NumericDomainError", "filterbank")
       ELSE /\ UNCHANGED s
            /\ Raise("ConfigurationError", "filterbank")
    /\ UNCHANGED <<outside, args, fs, resampled, file_reads, instv, shortv, longv, outv,
                   summary>>

\* lines 73-76
Filterbank ==
    /\ pc = "filterbank"
    /\ Invoke("filterbank", RateArg)
    /\ \/ \E out \in FilterbankOutputs(Val(s)) :
               /\ fb_left' = out[1]
               /\ fb_right' = out[2]
               /\ isl_left' = out[1]
               /\ isl_right' = out[2]
               /\ Goto("trim")
       \/ /\ UNCHANGED instv
          /\ Raise("NumericDomainError", "trim")
    /\ UNCHANGED <<outside, args, sigv, shortv, longv, outv, summary>>

\* lines 78-84
Trim ==
    /\ pc = "trim"
    /\ isl_left' = Shorten(isl_left)
    /\ isl_right' = Shorten(isl_right)
    /\ Goto("zero")
    /\ UNCHANGED <<outside, args, sigv, fb_left, fb_right, shortv, longv, outv, summary,
                   calls>>

\* lines 86-88: the shortened matrices are views of the filterbank's arrays
ZeroFirst ==
    /\ pc = "zero"
    /\ IF Len(isl_left) = 0
       THEN /\ UNCHANGED instv
            /\ Raise("IndexError", "short_left")
       ELSE /\ isl_left' = ZeroFirstRow(isl_left)
            /\ fb_left' = [fb_left EXCEPT ![ViewBase(fb_left)] = Zeros(NBands)]
            /\ IF Len(isl_right) = 0
               THEN /\ UNCHANGED <<isl_right, fb_right>>
                    /\ Raise("IndexError", "short_left")
               ELSE /\ isl_right' = ZeroFirstRow(isl_right)
                    /\ fb_right' =
                           [fb_right EXCEPT ![ViewBase(fb_right)] = Zeros(NBands)]
                    /\ Goto("short_left")
    /\ UNCHANGED <<outside, args, sigv, shortv, longv, outv, summary, calls>>

\* lines 90-95
ShortTermLeft ==
    /\ pc = "short_left"
    /\ Invoke("short_term", 0)
    /\ \/ \E agg \in ShortTermAggregates :
               /\ stsl_left' = ShortTermSpecific(isl_left)
               /\ stl_left' = agg
               /\ agg_left' = Some(agg)
               /\ Goto("short_right")
       \/ /\ UNCHANGED <<stsl_left, stl_left, agg_left>>
          /\ Raise("NumericDomainError", "short_right")
    /\ UNCHANGED <<outside, args, sigv, instv, stsl_right, stl_right, agg_right, i, longv,
                   outv, summary>>

\* lines 97-101
ShortTermRight ==
    /\ pc = "short_right"
    /\ Invoke("short_term", 1)
    /\ \/ \E agg \in ShortTermAggregates :
               /\ stsl_right' = ShortTermSpecific(isl_right)
               /\ stl_right' = agg
               /\ agg_right' = Some(agg)
               /\ Goto("init_totals")
       \/ /\ UNCHANGED <<stsl_right, stl_right, agg_right>>
          /\ Raise("NumericDomainError", "init_totals")
    /\ UNCHANGED <<outside, args, sigv, instv, stsl_left, stl_left, agg_left, i, longv,
                   outv, summary>>

\* lines 103-104
InitShortTermTotals ==
    /\ pc = "init_totals"
    /\ stl_left' = InitTotals(stsl_left)
    /\ stl_right' = InitTotals(stsl_right)
    /\ i' = 0
    /\ Goto("binaural")
    /\ UNCHANGED <<outside, args, sigv, instv, stsl_left, stsl_right, agg_left, agg_right,
                   longv, outv, summary, calls>>

\* lines 106-113, one pass of the loop body
BinauralFrame ==
    /\ pc = "binaural"
    /\ i < LoopFrames
    /\ Invoke("binaural", i)
    /\ \/ LET t == BinauralLoudness(FrameRows(i)[1], FrameRows(i)[2])
          IN  /\ stl_left' = StoreTotal(stl_left, i, LeftTotal(t))
              /\ stl_right' = StoreTotal(stl_right, i, RightTotal(t))
              /\ i' = i + 1
              /\ Goto("binaural")
       \/ /\ UNCHANGED <<stl_left, stl_right, i>>
          /\ Raise("NumericDomainError", "binaural")
    /\ UNCHANGED <<outside, args, sigv, instv, stsl_left, stsl_right, agg_left, agg_right,
                   longv, outv, summary>>

\* line 107, the loop is exhausted
BinauralDone ==
    /\ pc = "binaural"
    /\ ~(i < LoopFrames)
    /\ Goto("long_left")
    /\ UNCHANGED <<outside, args, sigv, instv, shortv, longv, outv, summary, calls>>

\* lines 115-118
LongTermLeft ==
    /\ pc = "long_left"
    /\ Invoke("long_term", 0)
    /\ \/ /\ ltl_left' = LongTerm(stl_left)
          /\ Goto("long_right")
       \/ /\ UNCHANGED ltl_left
          /\ Raise("NumericDomainError", "long_right")
    /\ UNCHANGED <<outside, args, sigv, instv, shortv, ltl_right, outv, summary>>

\* lines 119-121
LongTermRight ==
    /\ pc = "long_right"
    /\ Invoke("long_term", 1)
    /\ \/ /\ ltl_right' = LongTerm(stl_right)
          /\ Goto("aggregate")
       \/ /\ UNCHANGED ltl_right
          /\ Raise("NumericDomainError", "aggregate")
    /\ UNCHANGED <<outside, args, sigv, instv, shortv, ltl_left, outv, summary>>

\* lines 123-134
Aggregate ==
    /\ pc = "aggregate"
    /\ IF Len(ltl_left) = 0
       THEN /\ long_term_loudness' = SumChannels(ltl_left, ltl_right)
            /\ UNCHANGED <<loudness, short_term_loudness, il_left, il_right>>
            /\ Raise("ValueError", "phon_long")
       ELSE /\ long_term_loudness' = SumChannels(ltl_left, ltl_right)
            /\ loudness' = OverallLoudness(SumChannels(ltl_left, ltl_right))
            /\ short_term_loudness' = SumChannels(stl_left, stl_right)
            /\ il_left' = InstantaneousLoudness(isl_left)
            /\ il_right' = InstantaneousLoudness(isl_right)
            /\ Goto("phon_long")
    /\ UNCHANGED <<outside, args, sigv, instv, shortv, longv, summary, calls>>

\* lines 136-144
PhonLongTerm ==
    /\ pc = "phon_long"
    /\ Invoke("sone_to_phon", 0)
    /\ \/ /\ summary' = Append(summary, MaxSeq(SoneToPhon(long_term_loudness)))
          /\ Goto("phon_short")
       \/ /\ UNCHANGED summary
          /\ Raise("NumericDomainError", "phon_short")
    /\ UNCHANGED <<outside, args, sigv, instv, shortv, longv, outv>>

\* lines 145-148
PhonShortTerm ==
    /\ pc = "phon_short"
    /\ Invoke("sone_to_phon", 1)
    /\ \/ /\ summary' = Append(summary, MaxSeq(SoneToPhon(short_term_loudness)))
          /\ Goto("return")
       \/ /\ UNCHANGED summary
          /\ Raise("NumericDomainError", "return")
    /\ UNCHANGED <<outside, args, sigv, instv, shortv, longv, outv>>

\* lines 149-163
Return ==
    /\ pc = "return"
    /\ result' = Some(ReturnValue)
    /\ pc' = "done"
    /\ UNCHANGED <<outside, args, sigv, instv, shortv, longv, outv, summary, calls, error>>

Next ==
    \/ Load
    \/ ResampleStep
    \/ PadStep
    \/ Cochlea
    \/ Filterbank
    \/ Trim
    \/ ZeroFirst
    \/ ShortTermLeft
    \/ ShortTermRight
    \/ InitShortTermTotals
    \/ BinauralFrame
    \/ BinauralDone
    \/ LongTermLeft
    \/ LongTermRight
    \/ Aggregate
    \/ PhonLongTerm
    \/ PhonShortTerm
    \/ Return

Spec == Init /\ [][Next]_vars

\* lines 23-29: the caller, the call being over, calls tv2018 again with the
\* same arguments; the parameters are bound to the caller's objects and every
\* other local name is unbound again
Reinvoke ==
    /\ pc \in {"done", "raised"}
    /\ ~reinvoked
    /\ reinvoked' = TRUE
    /\ s' = s_arg
    /\ fs' = fs_arg
    /\ file_reads' = 0
    /\ resampled' = FALSE
    /\ fb_left' = None /\ fb_right' = None
    /\ isl_left' = None /\ isl_right' = None
    /\ stsl_left' = None /\ stsl_right' = None
    /\ stl_left' = None /\ stl_right' = None
    /\ agg_left' = None /\ agg_right' = None
    /\ i' = 0
    /\ ltl_left' = None /\ ltl_right' = None
    /\ long_term_loudness' = None
    /\ loudness' = None
    /\ short_term_loudness' = None
    /\ il_left' = None /\ il_right' = None
    /\ summary' = <<>>
    /\ calls' = <<>>
    /\ pc' = "load"
    /\ error' = None
    /\ result' = None
    /\ UNCHANGED <<args, refv>>

TwiceNext ==
    \/ Next
    \/ Reinvoke

\* tv2018 called, and then called once more with the same arguments
TwiceSpec == Init /\ [][TwiceNext]_vars

-----------------------------------------------------------------------------
(* The roughness reference functions: ref_zf, ref_dw, ref_ps, ref_ecma *)

\* the decimal literal w.f: w its whole part, f its fractional part written
\* with 7 digits.  The roughness values, which are only carried, are kept
\* as the literals of the source.
D(w, f) == <<w, f>>

\* a < b for two decimals
Less(a, b) == a[1] < b[1] \/ (a[1] = b[1] /\ a[2] < b[2])

\* arange(start, stop, step)
Arange(start, stop, step) ==
    [k \in 1..((stop - start + step - 1) \div step) |->
        D(start + (k - 1) * step, 0)]

\* ref_zf, fc == 125: fm (26 entries)
ref_zf_fm_125 ==
    <<D(10, 0223230), D(14, 8484740), D(22, 1145020), D(24, 9428390),
      D(27, 8366620), D(31, 3867860), D(34, 2074470), D(36, 9844250),
      D(39, 5714500), D(43, 0026250), D(47, 3277930), D(51, 2812800),
      D(57, 1664430), D(62, 7469640), D(67, 9847260), D(75, 0053250),
      D(82, 1121600), D(88, 7369160), D(93, 9296950), D(101, 5101200),
      D(106, 3494200), D(105, 5215100), D(139, 5297700), D(179, 7899000),
      D(226, 8836000), D(618, 8289000)>>

\* ref_zf, fc == 125: R (26 entries)
ref_zf_R_125 ==
    <<"0.08789206", "0.15167634", "0.2644867", "0.29879957", "0.32463667", "0.3400558",
      "0.34709367", "0.33893484", "0.3292617", "0.31324393", "0.2748609", "0.24245752",
      "0.20193195", "0.1835343", "0.16109457", "0.12749602", "0.10928232", "0.09564932",
      "0.08615938", "0.07580507", "0.07027298", "0.070275314", "0.04090890", "0.02875568",
      "0.018735673", "0.0032628998">>

\* ref_zf, fc == 250: fm (20 entries)
ref_zf_fm_250 ==
    <<D(9, 8668860), D(12, 6221600), D(27, 4203760), D(32, 7555700),
      D(38, 1142400), D(43, 4223820), D(49, 4566880), D(57, 4917140),
      D(65, 7767700), D(79, 6561400), D(87, 8732900), D(105, 8645100),
      D(129, 5341500), D(156, 8460000), D(166, 9027600), D(164, 3142500),
      D(194, 8945300), D(236, 0082600), D(320, 2224700), D(996, 6788300)>>

\* ref_zf, fc == 250: R (20 entries)
ref_zf_R_250 ==
    <<"0.08789789", "0.12193831", "0.3708092", "0.43099418", "0.4755579", "0.49039465",
      "0.47503302", "0.41672865", "0.34165177", "0.24969354", "0.20581095", "0.15120474",
      "0.10822188", "0.07665783", "0.07013886", "0.07014351", "0.05207635", "0.037664894",
      "0.022104176", "0.0031560503">>

\* ref_zf, fc == 500: fm (26 entries)
ref_zf_fm_500 ==
    <<D(11, 4094950), D(30, 4875070), D(33, 9469570), D(36, 9132540),
      D(39, 9275130), D(42, 2920230), D(46, 7057840), D(50, 7729380),
      D(52, 9362950), D(56, 0594250), D(59, 3615720), D(63, 1865900),
      D(66, 9026500), D(71, 0181100), D(74, 7940800), D(78, 5684800),
      D(83, 3822300), D(94, 1637950), D(113, 7363400), D(149, 6122600),
      D(228, 0776000), D(269, 4534000), D(343, 6406200), D(438, 1857300),
      D(536, 2281500), D(1831, 6288000)>>

\* ref_zf, fc == 500: R (26 entries)
ref_zf_R_500 ==
    <<"0.10152269", "0.4159882", "0.48784226", "0.53730124", "0.58255917", "0.61374336",
      "0.65500504", "0.67568153", "0.6826773", "0.68430084", "0.6717034", "0.6593232",
      "0.6337642", "0.6012624", "0.56008166", "0.5258434", "0.47217426", "0.38673645",
      "0.2821931", "0.1763591", "0.08655889", "0.06439575", "0.04328783", "0.02805619",
      "0.020718602", "0.0024511195">>

\* ref_zf, fc == 1000: fm (29 entries)
ref_zf_fm_1000 ==
    <<D(11, 0870010), D(13, 6558740), D(17, 4257740), D(22, 3230970),
      D(28, 3736700), D(34, 9490500), D(42, 3707580), D(49, 9675700),
      D(56, 4257160), D(63, 2099570), D(69, 4283200), D(74, 1946260),
      D(81, 1596700), D(87, 0550500), D(95, 1974200), D(103, 2875200),
      D(112, 9275600), D(137, 1037300), D(160, 7512700), D(193, 6657100),
      D(220, 9640000), D(246, 3332400), D(284, 3601000), D(332, 1115000),
      D(402, 6136000), D(472, 6974200), D(578, 3595600), D(700, 3975000),
      D(2566, 1887000)>>

\* ref_zf, fc == 1000: R (29 entries)
ref_zf_R_1000 ==
    <<"0.10113691", "0.13728729", "0.19609652", "0.27899456", "0.39539358", "0.5409575",
      "0.7005437", "0.8453598", "0.9321353", "0.98051274", "0.99174285", "0.9837013",
      "0.9491586", "0.90162235", "0.80737907", "0.7173512", "0.6151961", "0.44188514",
      "0.34071133", "0.25057378", "0.19783457", "0.16634719", "0.13030091", "0.10086449",
      "0.07060981", "0.05522989", "0.03911979", "0.02859039", "0.0032180264">>

\* ref_zf, fc == 2000: fm (27 entries)
ref_zf_fm_2000 ==
    <<D(9, 9128500), D(14, 0268990), D(42, 6735100), D(48, 0097270),
      D(51, 5261230), D(55, 7988930), D(58, 0282400), D(63, 2473000),
      D(68, 3930700), D(73, 1851700), D(78, 9196500), D(85, 3150800),
      D(94, 6400150), D(97, 8762300), D(112, 8471900), D(116, 1008000),
      D(134, 2055700), D(142, 0591100), D(176, 5439600), D(208, 3282200),
      D(247, 7417000), D(325, 8978000), D(392, 0095200), D(472, 1967800),
      D(560, 0395500), D(661, 0346000), D(2300, 1510000)>>

\* ref_zf, fc == 2000: R (27 entries)
ref_zf_R_2000 ==
    <<"0.0769564", "0.12057757", "0.5939494", "0.68385667", "0.7424558", "0.78007925",
      "0.7985556", "0.8280814", "0.8409192", "0.8384773", "0.8165356", "0.78357395",
      "0.69696763", "0.65123534", "0.5195601", "0.49169108", "0.3902205", "0.3513164",
      "0.2457958", "0.18558311", "0.13721035", "0.08642737", "0.0607108", "0.043004807",
      "0.031432506", "0.02523464", "0.0031944455">>

\* ref_zf, fc == 4000: fm (30 entries)
ref_zf_fm_4000 ==
    <<D(11, 3765000), D(15, 5612410), D(43, 5892680), D(47, 6462360),
      D(51, 4011460), D(56, 6191330), D(59, 8101500), D(63, 8435250),
      D(67, 0853100), D(70, 8575900), D(74, 0628800), D(77, 4106100),
      D(81, 3314100), D(87, 9164660), D(97, 7758000), D(100, 3331600),
      D(115, 6812060), D(119, 0125900), D(134, 4042200), D(148, 2887000),
      D(177, 7210200), D(205, 4212500), D(235, 5931000), D(272, 3194600),
      D(296, 5826000), D(330, 1286300), D(406, 0771500), D(481, 7047400),
      D(562, 5923500), D(1862, 4557000)>>

\* ref_zf, fc == 4000: R (30 entries)
ref_zf_R_4000 ==
    <<"0.07075734", "0.10967778", "0.4784683", "0.52834743", "0.5683734", "0.6097778",
      "0.6274577", "0.6473149", "0.6522843", "0.6521323", "0.6452131", "0.6333704",
      "0.62010473", "0.57756937", "0.51043147", "0.48305747", "0.38639748", "0.36280885",
      "0.29872113", "0.2538336", "0.18619592", "0.1454662", "0.11394783", "0.08948974",
      "0.07725139", "0.06268515", "0.04557176", "0.03472703", "0.026881821", "0.003147697">>

\* ref_zf, fc == 8000: fm (21 entries)
ref_zf_fm_8000 ==
    <<D(9, 4031030), D(17, 8039500), D(55, 7908860), D(61, 6093600),
      D(66, 7971300), D(70, 9217500), D(76, 4805600), D(82, 4668700),
      D(90, 5421800), D(94, 3760760), D(105, 4848200), D(109, 0954900),
      D(122, 2467900), D(143, 5154700), D(183, 9545000), D(219, 8970300),
      D(266, 5777600), D(336, 4415600), D(435, 7931500), D(561, 5252000),
      D(1394, 7712000)>>

\* ref_zf, fc == 8000: R (21 entries)
ref_zf_R_8000 ==
    <<"0.03535737", "0.09006271", "0.40631378", "0.42686793", "0.43575785", "0.4356466",
      "0.42647484", "0.40776858", "0.3738506", "0.35563606", "0.29824737", "0.2837258",
      "0.2342281", "0.17965466", "0.11587502", "0.08544585", "0.05986661", "0.04003583",
      "0.026355661", "0.017170433", "0.0031515576">>

\* ref_dw, fc == 125: fm (18 entries)
ref_dw_fm_125 ==
    <<D(1, 0355988), D(10, 3559870), D(11, 1326860), D(13, 8511320),
      D(18, 5113280), D(20, 0647240), D(24, 7249180), D(31, 3268600),
      D(41, 4239460), D(49, 9676360), D(57, 3462800), D(64, 3365700),
      D(72, 1035600), D(90, 7443400), D(79, 4822000), D(86, 0841450),
      D(91, 9093860), D(100, 4530700)>>

\* ref_dw, fc == 125: R (18 entries)
ref_dw_R_125 ==
    <<"0.0", "0.04359673", "0.09468665", "0.16416894", "0.19482289", "0.27656674",
      "0.3113079", "0.34196186", "0.32356948", "0.26226157", "0.20299728", "0.15803815",
      "0.11512262", "0.0619891", "0.09264305", "0.07016349", "0.05177112", "0.03950954">>

\* ref_dw, fc == 250: fm (36 entries)
ref_dw_fm_250 ==
    <<D(0, 7373272), D(3, 9324117), D(9, 5852540), D(14, 2549925),
      D(16, 7127500), D(19, 9078350), D(22, 6113660), D(23, 5944710),
      D(29, 4930880), D(30, 4761900), D(37, 1121370), D(41, 2903200),
      D(47, 9262660), D(50, 1382500), D(51, 1213530), D(53, 0875600),
      D(54, 0706600), D(56, 7741930), D(58, 2488480), D(62, 4270360),
      D(61, 6897100), D(69, 3087540), D(68, 5714300), D(71, 2749600),
      D(73, 7327200), D(73, 9784900), D(75, 2073750), D(79, 1397860),
      D(79, 1397860), D(84, 7926250), D(90, 1996900), D(97, 8187400),
      D(104, 7004600), D(112, 3195100), D(120, 9216600), D(129, 7695900)>>

\* ref_dw, fc == 250: R (36 entries)
ref_dw_R_250 ==
    <<"0.00432277", "0.00576369", "0.06340057", "0.16138329", "0.17435159", "0.26945245",
      "0.32132566", "0.3443804", "0.42651296", "0.44668588", "0.47694525", "0.4668588",
      "0.42651296", "0.46253604", "0.41210374", "0.4020173", "0.43948126", "0.37463978",
      "0.39193085", "0.3631124", "0.3429395", "0.3040346", "0.28242075", "0.27521613",
      "0.259366", "0.24207492", "0.24351585", "0.2204611", "0.20461094", "0.17146975",
      "0.14697406", "0.11815562", "0.09942363", "0.07636888", "0.05619597", "0.04322766">>

\* ref_dw, fc == 500: fm (23 entries)
ref_dw_fm_500 ==
    <<D(7, 6375403), D(15, 7928800), D(20, 8414230), D(26, 6666660),
      D(30, 9385100), D(34, 4336600), D(40, 2589000), D(44, 9190940),
      D(49, 1909370), D(51, 5210340), D(57, 3462800), D(64, 3365700),
      D(69, 7734600), D(74, 0453100), D(81, 4239500), D(87, 6375400),
      D(94, 2394800), D(102, 7831700), D(116, 7637560), D(129, 5792800),
      D(140, 8414300), D(149, 7734700), D(160, 2589000)>>

\* ref_dw, fc == 500: R (23 entries)
ref_dw_R_500 ==
    <<"0.04972752", "0.1253406", "0.23569483", "0.35013625", "0.46457765", "0.5258856",
      "0.619891", "0.67302454", "0.69346046", "0.69550407", "0.6873297", "0.67098093",
      "0.6321526", "0.57901907", "0.5074932", "0.4400545", "0.38487738", "0.3153951",
      "0.22752044", "0.16621253", "0.11920981", "0.08651226", "0.06811989">>

\* ref_dw, fc == 1000: fm (39 entries)
ref_dw_fm_1000 ==
    <<D(0, 0000000), D(3, 8844150), D(9, 7237625), D(17, 1476040),
      D(29, 3023070), D(37, 9336050), D(48, 5047570), D(55, 1453060),
      D(55, 9483950), D(57, 4801030), D(60, 6189270), D(63, 3147350),
      D(65, 2885200), D(67, 2010350), D(69, 5565700), D(76, 1443300),
      D(77, 2943000), D(82, 8477250), D(83, 3523250), D(88, 2600800),
      D(89, 0198060), D(93, 9275600), D(94, 4309000), D(97, 7890400),
      D(99, 0671900), D(104, 2325800), D(103, 9630050), D(106, 0329300),
      D(109, 8950400), D(111, 1895300), D(115, 0510100), D(117, 3817200),
      D(119, 9531100), D(125, 6306460), D(132, 6014100), D(137, 2496300),
      D(144, 4761700), D(151, 1943200), D(159, 9773700)>>

\* ref_dw, fc == 1000: R (39 entries)
ref_dw_R_1000 ==
    <<"0.0", "0.00211198", "0.03450088", "0.1382977", "0.40437", "0.60555416",
      "0.80238307", "0.89103884", "0.9516347", "0.90182984", "0.9753813", "0.92339617",
      "0.9969634", "0.92983717", "0.9882475", "0.9556905", "0.92104256", "0.89138556",
      "0.86107534", "0.83503467", "0.7960629", "0.7700222", "0.736826", "0.71946436",
      "0.6819286", "0.6529984", "0.6284707", "0.62555665", "0.5764418", "0.5764243",
      "0.52586645", "0.52727795", "0.48683867", "0.44491437", "0.40008652", "0.3726063",
      "0.3205599", "0.29016566", "0.24531329">>

\* ref_dw, fc == 2000: fm (58 entries)
ref_dw_fm_2000 ==
    <<D(0, 0000000), D(4, 4051557), D(7, 5956764), D(10, 0488870),
      D(12, 0172920), D(15, 6963600), D(17, 9116570), D(20, 3663640),
      D(20, 6196160), D(25, 2825100), D(27, 9878520), D(30, 2005300),
      D(31, 1854800), D(34, 3752500), D(34, 3816100), D(39, 7821920),
      D(39, 2981340), D(42, 2398900), D(42, 9813160), D(45, 1853900),
      D(44, 9568300), D(46, 6637540), D(48, 1353800), D(50, 3585320),
      D(53, 0406800), D(55, 2642060), D(56, 9711270), D(58, 6877800),
      D(60, 8903540), D(62, 3672180), D(62, 8452900), D(65, 0624600),
      D(67, 0084200), D(68, 4871500), D(71, 9073600), D(73, 6221400),
      D(76, 7909600), D(79, 2430500), D(81, 6783100), D(85, 1033700),
      D(91, 4503800), D(93, 6559450), D(96, 5861050), D(96, 3343500),
      D(98, 0480100), D(106, 5901000), D(107, 5728100), D(115, 6252400),
      D(118, 0720900), D(120, 2641900), D(121, 9767300), D(129, 5428500),
      D(131, 2550000), D(134, 9157600), D(135, 1562800), D(136, 8710600),
      D(144, 9291100), D(159, 8309200)>>

\* ref_dw, fc == 2000: R (58 entries)
ref_dw_R_2000 ==
    <<"0.00271003", "0.00538277", "0.04194128", "0.06631085", "0.10694477", "0.1407891",
      "0.18955104", "0.21934068", "0.250504", "0.30331025", "0.35477808", "0.39405492",
      "0.41708192", "0.4509304", "0.47396567", "0.54031587", "0.55929023", "0.5809457",
      "0.60803974", "0.6161512", "0.674419", "0.65407926", "0.66761696", "0.74483424",
      "0.71229106", "0.7908634", "0.7705236", "0.7854143", "0.78810567", "0.8206137",
      "0.779959", "0.83549607", "0.79482895", "0.83411205", "0.8164678", "0.8245834",
      "0.78255093", "0.8028555", "0.76218426", "0.76215523", "0.7119658", "0.7254973",
      "0.7051472", "0.67940396", "0.6834545", "0.6088561", "0.62375295", "0.5478037",
      "0.549138", "0.5138889", "0.5138744", "0.4487694", "0.44739988", "0.41484842",
      "0.39994115", "0.40805677", "0.3524327", "0.27371538">>

\* ref_dw, fc == 4000: fm (27 entries)
ref_dw_fm_4000 ==
    <<D(3, 1950846), D(16, 2211990), D(23, 8402460), D(29, 9846380),
      D(30, 2304150), D(37, 1121370), D(37, 6036870), D(45, 7142870),
      D(51, 8586800), D(57, 2657430), D(63, 9016900), D(68, 5714300),
      D(74, 4700500), D(78, 1566850), D(82, 3348700), D(88, 9708200),
      D(98, 0645140), D(108, 1413200), D(115, 0230400), D(123, 8709640),
      D(128, 7864800), D(133, 2104500), D(143, 0414700), D(151, 3978400),
      D(155, 0844900), D(157, 2964600), D(160, 2457700)>>

\* ref_dw, fc == 4000: R (27 entries)
ref_dw_R_4000 ==
    <<"0.00432277", "0.11383285", "0.23054755", "0.29538906", "0.31123918", "0.39337176",
      "0.41066283", "0.50864553", "0.5907781", "0.62680113", "0.6426513", "0.65273774",
      "0.64841497", "0.6440922", "0.6152738", "0.5720461", "0.5158501", "0.45677233",
      "0.41210374", "0.3631124", "0.34149855", "0.3184438", "0.2795389", "0.24495678",
      "0.24783862", "0.23919308", "0.24063401">>

\* ref_dw, fc == 8000: fm (43 entries)
ref_dw_fm_8000 ==
    <<D(4, 6498036), D(7, 1022663), D(8, 5697780), D(16, 1695700),
      D(23, 0372890), D(24, 0184970), D(25, 7355210), D(27, 4510480),
      D(30, 8858430), D(33, 5784650), D(34, 3195150), D(38, 4852600),
      D(40, 2063980), D(42, 6547470), D(45, 3559720), D(50, 9959640),
      D(52, 9531440), D(55, 8967740), D(56, 6310920), D(60, 5495700),
      D(61, 7728080), D(63, 2388230), D(66, 1805800), D(68, 8687100),
      D(70, 5861100), D(72, 7819600), D(74, 7440000), D(78, 4092250),
      D(80, 6118100), D(82, 3172300), D(86, 2327200), D(87, 2053200),
      D(90, 3849950), D(91, 1129500), D(96, 7349900), D(100, 3990900),
      D(106, 5063100), D(117, 2607100), D(127, 2815400), D(137, 0596000),
      D(145, 3727600), D(154, 6637600), D(159, 5559700)>>

\* ref_dw, fc == 8000: R (43 entries)
ref_dw_R_8000 ==
    <<"0.0053807", "0.02704024", "0.0256728", "0.08251926", "0.14614701", "0.15562384",
      "0.17186953", "0.18269515", "0.21789658", "0.22329386", "0.24903294", "0.27338803",
      "0.30453888", "0.31129324", "0.3478559", "0.3952338", "0.39521724", "0.42364773",
      "0.42499653", "0.43986857", "0.4398582", "0.4330707", "0.4547261", "0.44386315",
      "0.46146387", "0.43976498", "0.4573636", "0.44107231", "0.4437637", "0.4180039",
      "0.42203578", "0.40034726", "0.39761028", "0.3759238", "0.35826093", "0.3379046",
      "0.30533242", "0.2686558", "0.23334044", "0.20480223", "0.18711658", "0.1667126",
      "0.16396113">>

\* ref_ps, fc == 250: x = arange(20, 140, 10)
ref_ps_x_250 == Arange(20, 140, 10)

\* ref_ps, fc == 250: y (12 entries)
ref_ps_y_250 ==
    <<"0.22274093", "0.40159333", "0.49485818", "0.49003562", "0.402682", "0.32469746",
      "0.25295672", "0.20614693", "0.17648213", "0.15149577", "0.13118783", "0.11399959">>

\* ref_ps, fc == 1000: x = arange(20, 170, 10)
ref_ps_x_1000 == Arange(20, 170, 10)

\* ref_ps, fc == 1000: y (15 entries)
ref_ps_y_1000 ==
    <<"0.23987818", "0.43430352", "0.63348603", "0.840501", "0.9649883", "1.0053802",
      "0.9725802", "0.8790393", "0.77616817", "0.64682287", "0.56887937", "0.5018503",
      "0.4488377", "0.3927176", "0.34127373">>

\* ref_ps, fc == 4000: x = arange(20, 170, 10)
ref_ps_x_4000 == Arange(20, 170, 10)

\* ref_ps, fc == 4000: y (15 entries)
ref_ps_y_4000 ==
    <<"0.22429857", "0.3782322", "0.46526212", "0.52741647", "0.6067358", "0.6222046",
      "0.59563285", "0.54726654", "0.45841187", "0.39915878", "0.35237116", "0.30403143",
      "0.27594423", "0.23695582", "0.2213363">>

\* ref_ecma: fmod_vector
fmod_vector ==
    <<D(20, 0), D(30, 0), D(40, 0), D(50, 0), D(60, 0),
      D(70, 0), D(80, 0), D(90, 0), D(100, 0), D(120, 0),
      D(140, 0), D(160, 0), D(200, 0), D(300, 0), D(400, 0)>>

\* ref_ecma, fc == 125: R (15 entries)
ref_ecma_R_125 ==
    <<"0.234", "0.305", "0.285", "0.232", "0.174", "0.138",
      "0.105", "0.0808", "0.0631", "0.0406", "0.0325", "0.0297",
      "0.0469", "0.174", "0.0437">>

\* ref_ecma, fc == 250: R (15 entries)
ref_ecma_R_250 ==
    <<"0.211", "0.38", "0.471", "0.461", "0.384", "0.321",
      "0.258", "0.209", "0.172", "0.12", "0.0802", "0.0573",
      "0.0365", "0.0296", "0.0527">>

\* ref_ecma, fc == 500: R (15 entries)
ref_ecma_R_500 ==
    <<"0.197", "0.375", "0.536", "0.636", "0.633", "0.594",
      "0.514", "0.434", "0.366", "0.27", "0.208", "0.155",
      "0.0925", "0.0305", "0.0147">>

\* ref_ecma, fc == 1000: R (15 entries)
ref_ecma_R_1000 ==
    <<"0.234", "0.46", "0.701", "0.898", "0.977", "1.",
      "0.92", "0.801", "0.685", "0.501", "0.376", "0.289",
      "0.196", "0.0912", "0.0419">>

\* ref_ecma, fc == 2000: R (15 entries)
ref_ecma_R_2000 ==
    <<"0.186", "0.348", "0.52", "0.668", "0.744", "0.787",
      "0.754", "0.678", "0.599", "0.464", "0.371", "0.302",
      "0.212", "0.103", "0.0536">>

\* ref_ecma, fc == 4000: R (15 entries)
ref_ecma_R_4000 ==
    <<"0.184", "0.327", "0.477", "0.605", "0.675", "0.721",
      "0.698", "0.629", "0.551", "0.426", "0.342", "0.28",
      "0.207", "0.111", "0.0648">>

\* ref_ecma, fc == 8000: R (15 entries)
ref_ecma_R_8000 ==
    <<"0.0909", "0.168", "0.248", "0.319", "0.359", "0.386",
      "0.372", "0.324", "0.272", "0.193", "0.145", "0.112",
      "0.0771", "0.0383", "0.021">>

\* the array the branch of carrier c binds to fm (ref_zf, ref_dw) or x (ref_ps)
XTable(f, c) ==
    CASE f = "ref_zf" ->
            (CASE c = 125 -> ref_zf_fm_125
               [] c = 250 -> ref_zf_fm_250
               [] c = 500 -> ref_zf_fm_500
               [] c = 1000 -> ref_zf_fm_1000
               [] c = 2000 -> ref_zf_fm_2000
               [] c = 4000 -> ref_zf_fm_4000
               [] c = 8000 -> ref_zf_fm_8000)
      [] f = "ref_dw" ->
            (CASE c = 125 -> ref_dw_fm_125
               [] c = 250 -> ref_dw_fm_250
               [] c = 500 -> ref_dw_fm_500
               [] c = 1000 -> ref_dw_fm_1000
               [] c = 2000 -> ref_dw_fm_2000
               [] c = 4000 -> ref_dw_fm_4000
               [] c = 8000 -> ref_dw_fm_8000)
      [] f = "ref_ps" ->
            (CASE c = 250 -> ref_ps_x_250
               [] c = 1000 -> ref_ps_x_1000
               [] c = 4000 -> ref_ps_x_4000)

\* the array the branch of carrier c binds to R (ref_zf, ref_dw, ref_ecma) or
\* y (ref_ps)
YTable(f, c) ==
    CASE f = "ref_zf" ->
            (CASE c = 125 -> ref_zf_R_125
               [] c = 250 -> ref_zf_R_250
               [] c = 500 -> ref_zf_R_500
               [] c = 1000 -> ref_zf_R_1000
               [] c = 2000 -> ref_zf_R_2000
               [] c = 4000 -> ref_zf_R_4000
               [] c = 8000 -> ref_zf_R_8000)
      [] f = "ref_dw" ->
            (CASE c = 125 -> ref_dw_R_125
               [] c = 250 -> ref_dw_R_250
               [] c = 500 -> ref_dw_R_500
               [] c = 1000 -> ref_dw_R_1000
               [] c = 2000 -> ref_dw_R_2000
               [] c = 4000 -> ref_dw_R_4000
               [] c = 8000 -> ref_dw_R_8000)
      [] f = "ref_ps" ->
            (CASE c = 250 -> ref_ps_y_250
               [] c = 1000 -> ref_ps_y_1000
               [] c = 4000 -> ref_ps_y_4000)
      [] f = "ref_ecma" ->
            (CASE c = 125 -> ref_ecma_R_125
               [] c = 250 -> ref_ecma_R_250
               [] c = 500 -> ref_ecma_R_500
               [] c = 1000 -> ref_ecma_R_1000
               [] c = 2000 -> ref_ecma_R_2000
               [] c = 4000 -> ref_ecma_R_4000
               [] c = 8000 -> ref_ecma_R_8000)

RefFunctions == {"ref_zf", "ref_dw", "ref_ps", "ref_ecma"}

\* carrier frequencies the model calls the functions with
RefCarriers == {100, 125, 250, 500, 1000, 2000, 4000, 8000, 16000}

\* modulation frequencies the model calls the functions with
RefFmods == {5, 20, 70, 106, 400, 3000}

\* the carriers the if statements of the function compare fc with, in order
Tests(f) ==
    IF f = "ref_ps" THEN <<250, 1000, 4000>>
    ELSE <<125, 250, 500, 1000, 2000, 4000, 8000>>

\* ref_zf is one if/elif chain; the other functions are rows of separate ifs
Chained(f) == f = "ref_zf"

\* "fc >= <carrier>"
CarrierTestAtLeast(v, c) == v >= c

\* "fc == <carrier>"
CarrierTest(v, c) == v = c

\* np.all(np.diff(t) > 0)
StrictlyIncreasing(t) == \A k \in 1..(Len(t) - 1) : Less(t[k], t[k + 1])

\* interp(x, t, .): the pair <<lo, hi>> of the table points the result is
\* interpolated between (lo = hi: the value of that point).  Above the last
\* point the last value, below the first point the first value; inside an
\* increasing table the two neighbours that enclose x.  numpy does not check
\* that t is increasing and promises nothing when it is not: any pair of
\* neighbours may come out.
InterpPoints(x, t) ==
    LET n == Len(t)
        v == D(x, 0)
    IN  IF Less(t[n], v) THEN {<<n, n>>}
        ELSE IF Less(v, t[1]) THEN {<<1, 1>>}
        ELSE IF StrictlyIncreasing(t)
             THEN IF v = t[n] THEN {<<n, n>>}
                  ELSE {<<j, j + 1>> :
                          j \in {k \in 1..(n - 1) :
                                    ~Less(v, t[k]) /\ Less(v, t[k + 1])}}
             ELSE {<<j, j + 1>> : j \in 1..(n - 1)}

\* the value interp returns, as the interpolation it is: the abscissa and
\* the two table points
Interpolation(x, t, u, pts) ==
    [x |-> x,
     x0 |-> t[pts[1]], y0 |-> u[pts[1]],
     x1 |-> t[pts[2]], y1 |-> u[pts[2]]]

\* tv2018 is not being called
Tv2018Idle ==
    /\ s_arg = None /\ fs_arg = None /\ field_type = "free" /\ file = None
    /\ file_reads = 0 /\ s = None /\ fs = None /\ resampled = FALSE
    /\ fb_left = None /\ fb_right = None
    /\ isl_left = None /\ isl_right = None
    /\ stsl_left = None /\ stsl_right = None
    /\ stl_left = None /\ stl_right = None
    /\ agg_left = None /\ agg_right = None
    /\ i = 0
    /\ ltl_left = None /\ ltl_right = None
    /\ long_term_loudness = None /\ loudness = None
    /\ short_term_loudness = None
    /\ il_left = None /\ il_right = None
    /\ summary = <<>> /\ calls = <<>>
    /\ pc = "idle" /\ error = None /\ result = None
    /\ reinvoked = FALSE

tvv == <<args, sigv, instv, shortv, longv, outv, summary, calls, pc, error,
         result, reinvoked>>

RefInit ==
    /\ Tv2018Idle
    /\ ref_fn \in RefFunctions
    /\ fc \in RefCarriers
    /\ fmod \in RefFmods
    /\ xp = None
    /\ fp = None
    /\ taken = <<>>
    /\ branch = 0
    /\ ref_pc = "enter"
    /\ ref_value = None
    /\ ref_error = None

\* the statements before the first if: ref_ecma binds fmod_vector (line
\* 1148), the other functions bind nothing
RefEnter ==
    /\ ref_pc = "enter"
    /\ xp' = IF ref_fn = "ref_ecma" THEN Some(fmod_vector) ELSE None
    /\ branch' = 1
    /\ ref_pc' = "test"
    /\ UNCHANGED <<tvv, ref_fn, fc, fmod, fp, taken, ref_value, ref_error>>

\* one if (or elif) statement: the comparison and, when it holds, the body
RefTest ==
    /\ ref_pc = "test"
    /\ LET c == Tests(ref_fn)[branch]
       IN  IF CarrierTest(fc, c)
           THEN /\ xp' = IF ref_fn = "ref_ecma" THEN xp
                         ELSE Some(XTable(ref_fn, c))
                /\ fp' = Some(YTable(ref_fn, c))
                /\ taken' = Append(taken, c)
                /\ branch' = IF Chained(ref_fn) THEN Len(Tests(ref_fn)) + 1
                             ELSE branch + 1
           ELSE /\ UNCHANGED <<xp, fp, taken>>
                /\ branch' = branch + 1
    /\ ref_pc' = IF branch' > Len(Tests(ref_fn)) THEN "return" ELSE "test"
    /\ UNCHANGED <<tvv, ref_fn, fc, fmod, ref_value, ref_error>>

\* "return interp(fmod, fm, R)": a name no branch bound raises
\* UnboundLocalError; arrays of different lengths make interp raise
\* ValueError
RefReturn ==
    /\ ref_pc = "return"
    /\ IF xp = None \/ fp = None
       THEN /\ ref_error' = Some("UnboundLocalError")
            /\ ref_pc' = "raised"
            /\ UNCHANGED ref_value
       ELSE IF Len(Val(xp)) # Len(Val(fp))
       THEN /\ ref_error' = Some("ValueError")
            /\ ref_pc' = "raised"
            /\ UNCHANGED ref_value
       ELSE /\ \E pts \in InterpPoints(fmod, Val(xp)) :
                   ref_value' = Some(Interpolation(fmod, Val(xp), Val(fp), pts))
            /\ ref_pc' = "done"
            /\ UNCHANGED ref_error
    /\ UNCHANGED <<tvv, ref_fn, fc, fmod, xp, fp, taken, branch>>

RefNext ==
    \/ RefEnter
    \/ RefTest
    \/ RefReturn

RefSpec == RefInit /\ [][RefNext]_vars

-----------------------------------------------------------------------------
(* Vocabulary of the properties *)

Statements ==
    <<"load", "resample", "pad", "cochlea", "filterbank", "trim", "zero",
      "short_left", "short_right", "init_totals", "binaural", "long_left",
      "long_right", "aggregate", "phon_long", "phon_short", "return", "done">>

StatementIndex(p) == CHOOSE k \in 1..Len(Statements) : Statements[k] = p

\* the statement control is at, or was at when the exception left the call
Where == IF pc = "raised" THEN error[2] ELSE pc

\* control has got to statement p (p itself may have raised)
Reached(p) == StatementIndex(Where) >= StatementIndex(p)

\* statement p has completed without raising
Completed(p) == StatementIndex(Where) > StatementIndex(p)

Returned == pc = "done"

\* the signal and rate tv2018 works on: the arguments, or the file's content
InputSignal == IF NeedsLoad(s_arg, fs_arg) THEN file.s ELSE Val(s_arg)

InputRate == IF NeedsLoad(s_arg, fs_arg) THEN file.fs ELSE Val(fs_arg)

IsZeroSeq(xs) == \A k \in 1..Len(xs) : xs[k] = 0

\* the left and right totals of the binaural stage for every frame of two
\* short-term specific loudness matrices
BinauralTotals(ml, mr, side) ==
    [k \in 1..Len(ml) |->
        BinauralLoudness(ml[k], mr[k])[IF side = "left" THEN 2 ELSE 3]]

-----------------------------------------------------------------------------
(* C1 *)

\* C1: on every successful return the overall loudness is the maximum over
\* the retained frames of long-term left + long-term right, the two
\* long-term sequences being the long-term integrator's results for the left
\* and right per-frame totals; it is the maximum of the returned
\* long_term_loudness.
C1_OverallLoudnessIsMaxLongTerm ==
    Returned =>
        LET r == Val(result)
            n == Len(ltl_left)
        IN  /\ ltl_left = LongTerm(stl_left)
            /\ ltl_right = LongTerm(stl_right)
            /\ Len(ltl_right) = n
            /\ n > 0
            /\ \A k \in 1..n : r.loudness >= ltl_left[k] + ltl_right[k]
            /\ \E k \in 1..n : r.loudness = ltl_left[k] + ltl_right[k]
            /\ Len(r.long_term_loudness) = n
            /\ \A k \in 1..n : r.loudness >= r.long_term_loudness[k]
            /\ \E k \in 1..n : r.loudness = r.long_term_loudness[k]

\* a return whose maximum is above zero and is not reached at every frame
C1_Witness ==
    /\ Returned
    /\ Val(result).loudness > 0
    /\ \E k \in 1..Len(ltl_left) :
           ltl_left[k] + ltl_right[k] < Val(result).loudness
    /\ ltl_left # ltl_right

-----------------------------------------------------------------------------
(* C2 *)

\* C2: for any input, whatever the number of frames the filterbank stage
\* yields, once tv2018 has got past the zeroing of lines 86-88 both retained
\* instantaneous specific loudness matrices have a first frame and it is zero
\* in every band.
C2_FirstRetainedFrameIsZero ==
    (Completed("trim") /\ Where # "zero") \/ (pc = "raised" /\ Where = "zero") =>
        /\ Len(isl_left) > 0
        /\ isl_left[1] = Zeros(NBands)
        /\ Len(isl_right) > 0
        /\ isl_right[1] = Zeros(NBands)

-----------------------------------------------------------------------------
(* C3 *)

\* C3 as claimed: for every input the retained frame count is N - 64 for N
\* produced frames, and retained frame j is produced frame j + 32.
C3_RetainedIsProducedMinus64 ==
    Completed("trim") =>
        /\ Len(isl_left) = Len(fb_left) - 64
        /\ Len(isl_right) = Len(fb_right) - 64
        /\ \A j \in 1..Len(isl_left) : isl_left[j] = fb_left[j + 32]
        /\ \A j \in 1..Len(isl_right) : isl_right[j] = fb_right[j + 32]

\* C3, amended: the retained frame count is N - 64 when the filterbank
\* produced N >= 64 frames and 0 when it produced fewer, and retained frame
\* j is produced frame j + 32.
C3_RetainedFrames ==
    Completed("trim") =>
        /\ Len(isl_left) =
               IF Len(fb_left) >= 64 THEN Len(fb_left) - 64 ELSE 0
        /\ Len(isl_right) =
               IF Len(fb_right) >= 64 THEN Len(fb_right) - 64 ELSE 0
        /\ \A j \in 1..Len(isl_left) : isl_left[j] = fb_left[j + 32]
        /\ \A j \in 1..Len(isl_right) : isl_right[j] = fb_right[j + 32]

\* frames were retained, of a matrix whose frames differ from one another
C3_Witness ==
    /\ Where = "zero"
    /\ pc = "zero"
    /\ Len(isl_left) >= 2
    /\ isl_left[1] # isl_left[2]
    /\ fb_left[32] # fb_left[33]

-----------------------------------------------------------------------------
(* C4 *)

\* C4: for a zero-valued input signal of any length the call does not end in
\* an error caused by the signal's length, and what it returns is overall
\* loudness 0 with short-term and long-term sequences zero at every frame.
C4_SilenceGivesZeroLoudness ==
    IsZeroSignal(InputSignal) =>
        /\ pc = "raised" => error[1] \notin {"IndexError", "ValueError"}
        /\ Returned =>
               /\ Val(result).loudness = 0
               /\ IsZeroSeq(Val(result).short_term_loudness)
               /\ IsZeroSeq(Val(result).long_term_loudness)

-----------------------------------------------------------------------------
(* C5 *)

StageStatements ==
    {"cochlea", "filterbank", "short_left", "short_right", "binaural",
     "long_left", "long_right", "phon_long", "phon_short"}

StageOf(p) ==
    CASE p = "cochlea" -> "sound_field_to_cochlea"
      [] p = "filterbank" -> "filterbank"
      [] p \in {"short_left", "short_right"} -> "short_term"
      [] p = "binaural" -> "binaural"
      [] p \in {"long_left", "long_right"} -> "long_term"
      [] p \in {"phon_long", "phon_short"} -> "sone_to_phon"

\* C5: when a stage invoked by tv2018 fails the whole call fails: the call
\* has ended, nothing is returned, the failed invocation is the last one
\* made, and from then on nothing is invoked, assigned or returned.
C5_StageFailureAbortsCall ==
    /\ [](error # None =>
            /\ pc = "raised"
            /\ result = None
            /\ (error[2] \in StageStatements =>
                    /\ Len(calls) > 0
                    /\ calls[Len(calls)][1] = StageOf(error[2])))
    /\ [][error # None => UNCHANGED vars]_vars

\* the binaural stage failed at a frame after the first
C5_Witness ==
    /\ pc = "raised"
    /\ error = <<"NumericDomainError", "binaural">>
    /\ i >= 1
    /\ result = None

-----------------------------------------------------------------------------
(* C6 *)

\* C6 as claimed: given a signal whose rate is not 32000 Hz the call fails
\* and produces no loudness result.
C6_RateMismatchGivesNoResult ==
    InputRate # 32000 => result = None

\* C6, amended: given a signal whose rate is not 32000 Hz, tv2018 takes the
\* warning branch, replaces the signal by its resampling to
\* int(32000 * len(s) / fs) samples and the rate by 32000 and goes on (the
\* call ends there only if the resampling itself raises); a signal at
\* 32000 Hz is left as it is; the filterbank stage is only ever invoked with
\* the rate 32000.
C6_RateMismatchIsResampled ==
    /\ Completed("resample") =>
           /\ resampled = (InputRate # 32000)
           /\ fs = Some(32000)
    /\ pc = "pad" =>
           Val(s) = IF InputRate # 32000
                    THEN Resample(InputSignal,
                                  (32000 * Len(InputSignal)) \div InputRate)
                    ELSE InputSignal
    /\ \A k \in 1..Len(calls) :
           calls[k][1] = "filterbank" => calls[k][2] = 32000

\* a result was returned for a signal that was not at 32000 Hz
C6_Witness ==
    /\ Returned
    /\ InputRate = 16000
    /\ resampled
    /\ Len(InputSignal) > 0
    /\ Len(Val(s)) = 2 * Len(InputSignal) + 4096

-----------------------------------------------------------------------------
(* C7 *)

\* C7: with a field type outside {free, diffuse} the field-to-cochlea stage
\* fails with a configuration error; the filterbank and every later stage
\* are never invoked and no result is returned.
C7_UnknownFieldTypeStopsAtCochlea ==
    field_type \notin {"free", "diffuse"} =>
        /\ result = None
        /\ ~Completed("cochlea")
        /\ \A k \in 1..Len(calls) : calls[k][1] = "sound_field_to_cochlea"
        /\ Len(calls) <= 1
        /\ (Reached("cochlea") /\ pc # "cochlea" =>
                /\ pc = "raised"
                /\ error = <<"ConfigurationError", "cochlea">>
                /\ Len(calls) = 1)

\* the stage was invoked with an unsupported field type and raised
C7_Witness ==
    /\ field_type = "headphone"
    /\ pc = "raised"
    /\ error = <<"ConfigurationError", "cochlea">>
    /\ calls = <<<<"sound_field_to_cochlea", 0>>>>

-----------------------------------------------------------------------------
(* C8 *)

\* the invocations of a complete run over n retained frames
StageOrder(n) ==
    <<<<"sound_field_to_cochlea", 0>>, <<"filterbank", 32000>>,
      <<"short_term", 0>>, <<"short_term", 1>>>>
        \o [k \in 1..n |-> <<"binaural", k - 1>>]
        \o <<<<"long_term", 0>>, <<"long_term", 1>>,
             <<"sone_to_phon", 0>>, <<"sone_to_phon", 1>>>>

IsPrefix(xs, ys) == Len(xs) <= Len(ys) /\ xs = SubSeq(ys, 1, Len(xs))

\* C8: the invocations made so far are always an initial part of the one
\* fixed order: cochlea once, filterbank once, short-term left then right,
\* the binaural stage once per retained frame in frame order, long-term left
\* then right, then the two sone-to-phon conversions; a return has made
\* all of them, each exactly once.
C8_StagesRunInFixedOrder ==
    /\ IsPrefix(calls, StageOrder(Len(isl_left)))
    /\ Completed("phon_short") => calls = StageOrder(Len(isl_left))
    /\ Completed("binaural") => Len(calls) >= 4 + Len(isl_left)

\* a complete run over at least two frames
C8_Witness ==
    /\ Returned
    /\ Len(isl_left) >= 2
    /\ Len(calls) = 8 + Len(isl_left)

-----------------------------------------------------------------------------
(* C9 *)

\* C9: while and after the binaural loop runs, the totals of every frame
\* already processed are the binaural stage's left and right totals for
\* that frame's own two rows, and the totals of every frame not yet
\* processed are still the initial 0: a pass of the loop writes its own
\* index only, so the two sequences do not depend on the order of the
\* passes.
C9_BinauralFramesAreIndependent ==
    Reached("binaural") =>
        /\ Len(stl_left) = Len(stsl_left)
        /\ Len(stl_right) = Len(stsl_right)
        /\ \A k \in 1..Len(stl_left) :
               IF k <= i
               THEN /\ stl_left[k] =
                           BinauralLoudness(stsl_left[k], stsl_right[k])[2]
                    /\ stl_right[k] =
                           BinauralLoudness(stsl_left[k], stsl_right[k])[3]
               ELSE stl_left[k] = 0 /\ stl_right[k] = 0

\* mid-loop: a non-zero total stored, a later frame still to be processed
\* whose rows differ from the stored one's
C9_Witness ==
    /\ pc = "binaural"
    /\ i >= 2
    /\ i < Len(stsl_left)
    /\ stl_left[i] > 0
    /\ stl_left[i] # stl_right[i]
    /\ stsl_left[i] # stsl_left[i + 1]

-----------------------------------------------------------------------------
(* C10 *)

\* what tv2018 returns, as a function of the two retained instantaneous
\* specific loudness matrices alone
ExpectedShortTerm(ml, mr, side) ==
    BinauralTotals(ShortTermSpecific(ml), ShortTermSpecific(mr), side)

ExpectedReturn(ml, mr) ==
    LET sl == ExpectedShortTerm(ml, mr, "left")
        sr == ExpectedShortTerm(ml, mr, "right")
        lt == [k \in 1..Len(ml) |-> LongTerm(sl)[k] + LongTerm(sr)[k]]
    IN  [loudness |-> MaxSeq(lt),
         short_term_loudness |-> [k \in 1..Len(ml) |-> sl[k] + sr[k]],
         long_term_loudness |-> lt,
         instantaneous_loudness_left |->
             [k \in 1..Len(ml) |-> SumSeq(ml[k]) \div 4],
         instantaneous_loudness_right |->
             [k \in 1..Len(mr) |-> SumSeq(mr[k]) \div 4]]

\* C10: the aggregate the short-term integrator returns is dead: whatever
\* it was, the sequences handed to the long-term integrator are the binaural
\* stage's per-frame totals, and the returned values are a function of the
\* retained instantaneous specific loudness matrices only.
C10_ShortTermAggregateIsDead ==
    /\ Reached("long_left") =>
           /\ stl_left = ExpectedShortTerm(isl_left, isl_right, "left")
           /\ stl_right = ExpectedShortTerm(isl_left, isl_right, "right")
    /\ Returned => Val(result) = ExpectedReturn(isl_left, isl_right)

\* a return of non-zero loudness after both integrator calls returned a
\* non-zero aggregate, which differs from what the binaural stage stored
C10_Witness ==
    /\ Returned
    /\ agg_left = Some(5)
    /\ agg_right = Some(5)
    /\ Val(result).loudness > 0
    /\ \E k \in 1..Len(stl_left) : stl_left[k] \notin {0, 5}

-----------------------------------------------------------------------------
(* C11 *)

AllAssigned ==
    /\ long_term_loudness # None
    /\ short_term_loudness # None
    /\ il_left # None
    /\ il_right # None
    /\ \E k \in 1..Len(long_term_loudness) : loudness = long_term_loudness[k]

\* C11: the sone-to-phon conversion never feeds back: whenever a conversion
\* has been invoked the five values to return had all been computed, no step
\* from the first conversion on changes any of them, and what is returned is
\* those five values, not a conversion result.
C11_PhonConversionNeverFeedsBack ==
    /\ []((\E k \in 1..Len(calls) : calls[k][1] = "sone_to_phon") =>
              Reached("phon_long") /\ AllAssigned)
    /\ [](Returned =>
              /\ Val(result).loudness = loudness
              /\ Val(result).short_term_loudness = short_term_loudness
              /\ Val(result).long_term_loudness = long_term_loudness
              /\ Val(result).instantaneous_loudness_left = il_left
              /\ Val(result).instantaneous_loudness_right = il_right
              /\ Val(result).long_term_loudness = SumChannels(ltl_left, ltl_right))
    /\ [][Reached("phon_long") => UNCHANGED outv]_vars

\* a return after both conversions printed a phon value that differs from
\* every returned loudness value
C11_Witness ==
    /\ Returned
    /\ Len(summary) = 2
    /\ summary[1] > 40
    /\ summary[1] # Val(result).loudness
    /\ \A k \in 1..Len(long_term_loudness) :
           summary[1] # Val(result).long_term_loudness[k]

-----------------------------------------------------------------------------
(* C12 *)

NonNegative(xs) == \A k \in 1..Len(xs) : xs[k] >= 0

\* C12: every value tv2018 returns is non-negative: each entry of the two
\* instantaneous sequences, of the short-term and of the long-term sequence,
\* and the overall loudness.
C12_ReturnedValuesAreNonNegative ==
    Returned =>
        /\ NonNegative(Val(result).instantaneous_loudness_left)
        /\ NonNegative(Val(result).instantaneous_loudness_right)
        /\ NonNegative(Val(result).short_term_loudness)
        /\ NonNegative(Val(result).long_term_loudness)
        /\ Val(result).loudness >= 0

\* a return where the right channel is louder than the left at some frame
C12_Witness ==
    /\ Returned
    /\ \E k \in 1..Len(ltl_left) : ltl_right[k] > ltl_left[k]
    /\ \E k \in 1..Len(stl_left) : stl_right[k] > stl_left[k]
    /\ Val(result).loudness > 0

-----------------------------------------------------------------------------
(* C13 *)

\* C13: on every return the short-term, the long-term and the two
\* instantaneous sequences have one entry per retained frame; when the
\* long-term integrator is invoked the loop has passed every index of both
\* per-channel total sequences, whose lengths are the retained frame count.
C13_FrameCountsStayAligned ==
    /\ Reached("long_left") =>
           /\ i = Len(stl_left)
           /\ i = Len(stl_right)
           /\ Len(stl_left) = Len(isl_left)
           /\ Len(stl_right) = Len(isl_right)
           /\ \A k \in 0..(i - 1) : \E c \in 1..Len(calls) :
                  calls[c] = <<"binaural", k>>
    /\ Returned =>
           LET r == Val(result)
               n == Len(fb_left) - 64
           IN  /\ n >= 1
               /\ Len(r.short_term_loudness) = n
               /\ Len(r.long_term_loudness) = n
               /\ Len(r.instantaneous_loudness_left) = n
               /\ Len(r.instantaneous_loudness_right) = n

\* a return over three retained frames
C13_Witness ==
    /\ Returned
    /\ Len(fb_left) = 67
    /\ Len(Val(result).short_term_loudness) = 3
    /\ i = 3

-----------------------------------------------------------------------------
(* C16 *)

\* C16: at every retained frame the returned short-term loudness is the
\* left total plus the right total of the binaural stage's triple for that
\* frame (the first component is stored nowhere), and the returned long-term
\* sequence is the element-wise sum of the two per-channel long-term
\* sequences.
C16_ShortTermIsLeftPlusRight ==
    /\ Reached("binaural") =>
           \A k \in 1..i :
               /\ stl_left[k] =
                      BinauralLoudness(stsl_left[k], stsl_right[k])[2]
               /\ stl_right[k] =
                      BinauralLoudness(stsl_left[k], stsl_right[k])[3]
    /\ Returned =>
           LET r == Val(result)
           IN  /\ Len(r.short_term_loudness) = Len(stsl_left)
               /\ Len(r.long_term_loudness) = Len(stsl_left)
               /\ \A k \in 1..Len(stsl_left) :
                      /\ r.short_term_loudness[k] =
                             BinauralLoudness(stsl_left[k], stsl_right[k])[2]
                             + BinauralLoudness(stsl_left[k], stsl_right[k])[3]
                      /\ r.long_term_loudness[k] = ltl_left[k] + ltl_right[k]

\* a return with a frame whose left total is neither the right total nor
\* the binaural total
C16_Witness ==
    /\ Returned
    /\ \E k \in 1..Len(stsl_left) :
           LET t == BinauralLoudness(stsl_left[k], stsl_right[k])
           IN  t[2] # t[3] /\ t[3] > 0 /\ t[1] # t[2]

-----------------------------------------------------------------------------
(* C17 *)

\* C17: the sound file is read exactly when s is None or fs is None: with
\* both supplied it is never loaded and the call works on the arguments;
\* with either one missing it is loaded once and both s and fs are the
\* file's content, a supplied signal or rate being discarded.
C17_FileReadIffArgumentMissing ==
    /\ file_reads \in {0, 1}
    /\ Completed("load") =>
           (file_reads = 1) = (s_arg = None \/ fs_arg = None)
    /\ pc = "resample" =>
           IF s_arg = None \/ fs_arg = None
           THEN s = Some(file.s) /\ fs = Some(file.fs)
           ELSE s = s_arg /\ fs = fs_arg
    /\ (s_arg # None /\ fs_arg # None) => file_reads = 0

\* a signal supplied without a rate was replaced by the file's content
C17_Witness ==
    /\ pc = "resample"
    /\ s_arg # None
    /\ fs_arg = None
    /\ Val(s_arg) # file.s
    /\ s = Some(file.s)
    /\ file_reads = 1

-----------------------------------------------------------------------------
(* C14 *)

\* the signal before the padding: the input, resampled when its rate is not
\* the operating rate
BeforePad ==
    IF InputRate # 32000
    THEN Resample(InputSignal, (32000 * Len(InputSignal)) \div InputRate)
    ELSE InputSignal

\* C14: the signal handed to the field-to-cochlea stage is the input
\* (resampled if its rate is not 32000 Hz) with exactly 2048 zero samples
\* before it and 2048 zero samples after it along the time axis: its length
\* is the length before padding + 4096, every sample keeps its two channels,
\* the samples before padding sit unmodified at positions 2048 ..
\* 2048+len-1 (counted from 0), and the padding comes after the resampling,
\* so the rate is 32000 Hz when the guard is added.
C14_PaddedSignalReachesCochlea ==
    pc = "cochlea" =>
        LET p == Val(s)
            n == Len(BeforePad)
        IN  /\ Len(p) = n + 4096
            /\ \A k \in 1..2048 : p[k] = <<0, 0>>
            /\ \A k \in 1..2048 : p[2048 + n + k] = <<0, 0>>
            /\ \A k \in 1..n : p[2048 + k] = BeforePad[k]
            /\ \A k \in 1..Len(p) : Len(p[k]) = 2
            /\ Val(fs) = 32000
            /\ resampled = (InputRate # 32000)
            /\ calls = <<>>

\* a non-silent one-sample signal at 16000 Hz, resampled to two samples and
\* then padded, is about to be handed to the field-to-cochlea stage
C14_Witness ==
    /\ pc = "cochlea"
    /\ resampled
    /\ Len(InputSignal) = 1
    /\ ~IsZeroSignal(InputSignal)
    /\ Len(Val(s)) = 4098
    /\ Val(s)[2049] = InputSignal[1]
    /\ Val(s)[2050] = InputSignal[1]

-----------------------------------------------------------------------------
(* C15 *)

\* every local name of tv2018 but the parameters is unbound
FreshLocals ==
    /\ file_reads = 0 /\ ~resampled
    /\ fb_left = None /\ fb_right = None
    /\ isl_left = None /\ isl_right = None
    /\ stsl_left = None /\ stsl_right = None
    /\ stl_left = None /\ stl_right = None
    /\ agg_left = None /\ agg_right = None
    /\ ltl_left = None /\ ltl_right = None
    /\ long_term_loudness = None /\ short_term_loudness = None
    /\ il_left = None /\ il_right = None
    /\ calls = <<>> /\ summary = <<>>
    /\ error = None /\ result = None

\* array b is array a with frame 33 (frame 32 counted from 0) set to zero and
\* nothing else changed
OnlyFirstRetainedZeroed(a, b) ==
    /\ Len(b) = Len(a)
    /\ Len(a) > 64
    /\ \A k \in 1..Len(a) : k # 33 => b[k] = a[k]
    /\ \A c \in 1..Len(b[33]) : b[33][c] = 0

-----------------------------------------------------------------------------
(* C18 *)

\* the carrier frequencies the claim gives for the function called
Supported ==
    IF ref_fn = "ref_ps" THEN {250, 1000, 4000}
    ELSE {125, 250, 500, 1000, 2000, 4000, 8000}

\* the if statements of the reference function are behind
RefSelected == ref_pc \in {"return", "done", "raised"}

\* point k of the table of the carrier fc of the function called
TablePoint(k) ==
    <<(IF ref_fn = "ref_ecma" THEN fmod_vector ELSE XTable(ref_fn, fc))[k],
      YTable(ref_fn, fc)[k]>>

\* C18: in a call of ref_zf, ref_dw, ref_ecma with fc among 125, 250, 500,
\* 1000, 2000, 4000, 8000, or of ref_ps with fc among 250, 1000, 4000, the
\* branch of fc and of no other carrier is entered, the arrays interpolated
\* on are those of fc, and the returned value lies on two points of that
\* table; with any other fc no branch is entered, the roughness array is
\* unbound at the return statement, and the call ends with
\* UnboundLocalError and without a value.
C18_OneTableOrError ==
    /\ RefSelected /\ fc \in Supported =>
           /\ taken = <<fc>>
           /\ fp = Some(YTable(ref_fn, fc))
           /\ xp = Some(IF ref_fn = "ref_ecma" THEN fmod_vector
                        ELSE XTable(ref_fn, fc))
           /\ ref_pc # "raised"
           /\ ref_error = None
    /\ RefSelected /\ fc \notin Supported =>
           /\ taken = <<>>
           /\ fp = None
           /\ ref_pc # "done"
           /\ ref_value = None
    /\ ref_pc = "raised" => ref_error = Some("UnboundLocalError")
    /\ ref_pc = "done" =>
           LET v == Val(ref_value)
           IN  /\ v.x = fmod
               /\ \E k \in 1..Len(Val(fp)) : <<v.x0, v.y0>> = TablePoint(k)
               /\ \E k \in 1..Len(Val(fp)) : <<v.x1, v.y1>> = TablePoint(k)

\* ref_ps, called with a carrier the other three functions have a table
\* for, has ended with the error
C18_Witness ==
    /\ ref_fn = "ref_ps"
    /\ fc = 500
    /\ ref_pc = "raised"
    /\ ref_error = Some("UnboundLocalError")
    /\ taken = <<>>

-----------------------------------------------------------------------------
(* C19 *)

\* a <= b for two decimals
AtMost(a, b) == ~Less(b, a)

\* C19 as claimed: the two arrays handed to interp have the same number of
\* entries, the modulation frequencies are strictly increasing, and the
\* value returned is interpolated between the two neighbouring table
\* points that enclose fmod (the end point's value outside the table).
C19_TablesAreWellFormed ==
    /\ ref_pc \in {"return", "done"} /\ xp # None /\ fp # None =>
           /\ Len(Val(xp)) = Len(Val(fp))
           /\ StrictlyIncreasing(Val(xp))
    /\ ref_pc = "done" =>
           LET v == Val(ref_value)
               n == Len(Val(xp))
           IN  \/ v.x0 = v.x1 /\ v.x0 = Val(xp)[1] /\ AtMost(D(v.x, 0), v.x0)
               \/ v.x0 = v.x1 /\ v.x0 = Val(xp)[n] /\ AtMost(v.x0, D(v.x, 0))
               \/ AtMost(v.x0, D(v.x, 0)) /\ Less(D(v.x, 0), v.x1)

====
